---- MODULE Spec2Model ----
\* ARQV30 Enhanced v2.0: the API validation engine (services/api_validator.py),
\* the environment loader (services/environment_loader.py), the diagnostic
\* entry point (validate_system.py) and the reset handler of run.py, as state
\* machines.
\*
\* Strings of the program are kept as ASCII literals; a string whose length
\* matters (a detail message, a secret) is kept together with its length in
\* characters.
EXTENDS Integers, Sequences, FiniteSets, TLC

VARIABLES
    env,                 \* os.environ: key -> value
    validation_results,  \* APIValidator.validation_results (self): the dict, or
                         \* a reference into heap where threads share the engine
    last_validation,     \* APIValidator.last_validation (self)
    now,                 \* the clock read by time.time()
    pc,                  \* position of the running program
    caller,              \* who called validate_all_apis: "main" or "readiness"
    results,             \* the local validation_results of validate_all_apis
    idx,                 \* position of the for loop over apis_to_validate
    live_calls,          \* providers whose probe issued its live call in this pass
    last_probe,          \* what the latest iteration of the loop met
    returned,            \* the value validate_all_apis returned to its caller
    readiness,           \* the value get_system_readiness returned
    env_loaded,          \* EnvironmentLoader.env_loaded
    missing_vars,        \* EnvironmentLoader.missing_vars
    loads,               \* how many times load_environment has run
    inherited,           \* os.environ as the process inherited it
    dotenv_installed,    \* whether "from dotenv import load_dotenv" succeeds
    env_files,           \* the file system at the candidate .env paths
    supplied_len,        \* len() of the value the user supplied for a key
    api_status,          \* the dict get_api_status returned
    printed,             \* what print_configuration_status wrote per provider
    success,             \* what main() of validate_system.py returned
    exit_status,         \* the exit status of the process
    escaped,             \* whether a fault left the main sequence of main()
    components,          \* what the component checks of main() met
    heap,                \* the report dicts created so far, by object identity
    threads,             \* the request threads: position and local variables
    passes,              \* what each validation pass met, by the dict it built
    ai_manager,          \* error state of the AI manager, per provider
    production_search_manager,  \* error state of the search manager
    response,            \* the response of the reset handler
    inflight,            \* the live call a probe is waiting on
    silent               \* the providers that never answer a call

main_vars == <<supplied_len, api_status, printed, success, exit_status, escaped,
               components>>

thread_vars == <<heap, threads, passes>>

reset_vars == <<ai_manager, production_search_manager, response>>

live_vars == <<inflight, silent>>

other_vars == <<main_vars, thread_vars, reset_vars, live_vars>>

vars == <<env, validation_results, last_validation, now, pc, caller, results,
          idx, live_calls, last_probe, returned, readiness, env_loaded,
          missing_vars, loads, inherited, dotenv_installed, env_files,
          main_vars, thread_vars, reset_vars, live_vars>>

validator_vars == <<validation_results, last_validation, now, pc, caller, results,
                    idx, live_calls, last_probe, returned, readiness>>

validator_vars_but_pc == <<validation_results, last_validation, now, caller,
                           results, idx, live_calls, last_probe, returned,
                           readiness>>

loader_vars == <<env_loaded, missing_vars, loads, inherited, dotenv_installed,
                 env_files>>

-----------------------------------------------------------------------------
\* Bounds of the model.

\* Length of the message str(e) of a fault raised in this model.
MaxMsgLen == 60

\* How many times load_environment runs in a behaviour.
MaxLoads == 3

\* Length of the longest value a user supplies for a key.
MaxSecretLen == 40

\* How many request threads use the shared api_validator.
MaxThreads == 2

\* How many validation passes start in a behaviour.
MaxPasses == 3

\* How many errors a runtime manager counts for one provider.
MaxErrors == 1

\* How many requests the reset handler serves in a behaviour.
MaxRequests == 2

-----------------------------------------------------------------------------
\* The process environment.

\* os.getenv(k) of a key that is not in os.environ returns None.
Absent == "<unset>"

\* "not os.getenv(k)": None and the empty string are both false.
Truthy(v) == v # Absent /\ v # ""

\* The keys validate_critical_variables injects, in the order of its dicts.
required_vars == <<"SUPABASE_URL", "SUPABASE_ANON_KEY", "GEMINI_API_KEY">>

recommended_vars == <<"GROQ_API_KEY", "GOOGLE_SEARCH_KEY", "GOOGLE_CSE_ID">>

\* The keys set_default_values fills.
defaults ==
    <<"FLASK_ENV", "HOST", "PORT", "LOG_LEVEL", "AUTO_SAVE_ENABLED",
      "RESILIENT_MODE", "URL_FILTERING_ENABLED", "WEBSAILOR_ENABLED",
      "ULTRA_DETAILED_MODE", "CONTENT_QUALITY_THRESHOLD", "MIN_CONTENT_LENGTH",
      "MIN_SOURCES_REQUIRED", "ANALYSIS_TIMEOUT">>

Range(s) == {s[i] : i \in DOMAIN s}

\* The keys the probes read.
ProviderKeys ==
    Range(required_vars) \cup Range(recommended_vars)
        \cup {"OPENAI_API_KEY", "SERPER_API_KEY", "JINA_API_KEY"}

Keys == ProviderKeys \cup Range(defaults)

-----------------------------------------------------------------------------
\* Detail strings.

\* len() of the literal parts of the detail strings.
StrLen ==
    [t \in {"URL ou chave nao configuradas", "Conectado e funcionando",
            "Configurado mas com erro: ", "API key nao configurada",
            "Conectado e respondendo", "Configurado mas nao responde corretamente",
            "Erro: ", "API key ou CSE ID nao configurados",
            "Conectado e retornando resultados", "Conectado mas sem resultados",
            "HTTP ", "Conectado e extraindo conteudo", "Erro na validacao: "} |->
        CASE t = "URL ou chave nao configuradas" -> 29
          [] t = "Conectado e funcionando" -> 23
          [] t = "Configurado mas com erro: " -> 26
          [] t = "API key nao configurada" -> 23
          [] t = "Conectado e respondendo" -> 23
          [] t = "Configurado mas nao responde corretamente" -> 41
          [] t = "Erro: " -> 6
          [] t = "API key ou CSE ID nao configurados" -> 34
          [] t = "Conectado e retornando resultados" -> 33
          [] t = "Conectado mas sem resultados" -> 28
          [] t = "HTTP " -> 5
          [] t = "Conectado e extraindo conteudo" -> 30
          [] t = "Erro na validacao: " -> 19]

\* A detail string: its literal part followed by `extra` characters of a message.
Details(text, extra) == [text |-> text, len |-> StrLen[text] + extra]

\* len(s[:k]) for a string s of n characters.
SliceLen(n, k) == IF n < k THEN n ELSE k

\* str(e)[:50]
TruncLen == 50

\* len(str(response.status_code)) of an HTTP status code
StatusCodeLen == 3

-----------------------------------------------------------------------------
\* The probes. `live` is what the provider does when the live call is made:
\*   "ok"           the call returns what the probe expects
\*   "bad_response" the call returns without the expected marker or field
\*                  (for jina: status 200 with a body of at most 100 characters)
\*   "http_error"   the call returns a status other than 200
\*   "raises"       the call raises (timeout, transport error, import error ...)
\* and live.msgLen is len(str(e)) of what it raises.
\* A probe returns (configured, working, details); `called` tells whether it
\* reached its live call.

NotCalled(text) ==
    [configured |-> FALSE, working |-> FALSE, details |-> Details(text, 0),
     called |-> FALSE]

Called(working, text, extra) ==
    [configured |-> TRUE, working |-> working, details |-> Details(text, extra),
     called |-> TRUE]

validate_supabase(e, live) ==
    IF ~Truthy(e["SUPABASE_URL"]) \/ ~Truthy(e["SUPABASE_ANON_KEY"])
    THEN NotCalled("URL ou chave nao configuradas")
    ELSE IF live.kind = "ok"
         THEN Called(TRUE, "Conectado e funcionando", 0)
         ELSE Called(FALSE, "Configurado mas com erro: ",
                     SliceLen(live.msgLen, TruncLen))

\* _validate_gemini, _validate_groq and _validate_openai differ in the key
\* they read and the client they call only.
validate_echo(e, key, live) ==
    IF ~Truthy(e[key])
    THEN NotCalled("API key nao configurada")
    ELSE CASE live.kind = "ok" -> Called(TRUE, "Conectado e respondendo", 0)
           [] live.kind = "bad_response" ->
                Called(FALSE, "Configurado mas nao responde corretamente", 0)
           [] OTHER -> Called(FALSE, "Erro: ", SliceLen(live.msgLen, TruncLen))

validate_gemini(e, live) == validate_echo(e, "GEMINI_API_KEY", live)

validate_groq(e, live) == validate_echo(e, "GROQ_API_KEY", live)

validate_openai(e, live) == validate_echo(e, "OPENAI_API_KEY", live)

\* The body shared by the two web-search probes after the credential check.
search_response(live) ==
    CASE live.kind = "ok" -> Called(TRUE, "Conectado e retornando resultados", 0)
      [] live.kind = "bad_response" -> Called(FALSE, "Conectado mas sem resultados", 0)
      [] live.kind = "http_error" -> Called(FALSE, "HTTP ", StatusCodeLen)
      [] OTHER -> Called(FALSE, "Erro: ", SliceLen(live.msgLen, TruncLen))

validate_google_search(e, live) ==
    IF ~Truthy(e["GOOGLE_SEARCH_KEY"]) \/ ~Truthy(e["GOOGLE_CSE_ID"])
    THEN NotCalled("API key ou CSE ID nao configurados")
    ELSE search_response(live)

validate_serper(e, live) ==
    IF ~Truthy(e["SERPER_API_KEY"])
    THEN NotCalled("API key nao configurada")
    ELSE search_response(live)

validate_jina(e, live) ==
    IF ~Truthy(e["JINA_API_KEY"])
    THEN NotCalled("API key nao configurada")
    ELSE CASE live.kind = "ok" -> Called(TRUE, "Conectado e extraindo conteudo", 0)
           [] live.kind \in {"bad_response", "http_error"} ->
                Called(FALSE, "HTTP ", StatusCodeLen)
           [] OTHER -> Called(FALSE, "Erro: ", SliceLen(live.msgLen, TruncLen))

\* What each provider's live call can do, as far as its probe tells it apart.
LiveKinds(name) ==
    CASE name = "supabase" -> {"ok", "raises"}
      [] name \in {"gemini", "groq", "openai"} -> {"ok", "bad_response", "raises"}
      [] name \in {"google_search", "serper"} ->
            {"ok", "bad_response", "http_error", "raises"}
      [] name = "jina" -> {"ok", "bad_response", "http_error", "raises"}

MsgLens == {MaxMsgLen}

LiveOutcomes(name) ==
    {[kind |-> k, msgLen |-> 0] : k \in LiveKinds(name) \ {"raises"}}
        \cup {[kind |-> "raises", msgLen |-> n] : n \in MsgLens}

-----------------------------------------------------------------------------
\* The validation engine.

apis_to_validate ==
    << [name |-> "supabase",      priority |-> "CRITICAL"],
       [name |-> "gemini",        priority |-> "CRITICAL"],
       [name |-> "groq",          priority |-> "RECOMMENDED"],
       [name |-> "openai",        priority |-> "OPTIONAL"],
       [name |-> "google_search", priority |-> "RECOMMENDED"],
       [name |-> "serper",        priority |-> "OPTIONAL"],
       [name |-> "jina",          priority |-> "OPTIONAL"] >>

ProviderNames == {apis_to_validate[i].name : i \in DOMAIN apis_to_validate}

\* validator_func(): the probe the registry holds for `name`.
validator_func(name, e, live) ==
    CASE name = "supabase" -> validate_supabase(e, live)
      [] name = "gemini" -> validate_gemini(e, live)
      [] name = "groq" -> validate_groq(e, live)
      [] name = "openai" -> validate_openai(e, live)
      [] name = "google_search" -> validate_google_search(e, live)
      [] name = "serper" -> validate_serper(e, live)
      [] name = "jina" -> validate_jina(e, live)

\* self.validation_results = {} of a new engine: a dict with no key.
EmptyDict == [k \in {} |-> 0]

IsEmptyDict(d) == DOMAIN d = {}

\* A pass that goes on from the stored report instead of a new dict.
NewResults_Merged(t) ==
    IF validation_results \in DOMAIN heap
    THEN [heap[validation_results] EXCEPT !.timestamp = t]
    ELSE [timestamp |-> t,
          apis |-> [n \in {} |-> 0],
          summary |-> [total_apis |-> Len(apis_to_validate), configured_apis |-> 0,
                       working_apis |-> 0, critical_apis_working |-> 0,
                       system_ready |-> FALSE]]

\* The dict validate_all_apis starts from.
NewResults(t) ==
    [timestamp |-> t,
     apis |-> [n \in {} |-> 0],
     summary |-> [total_apis |-> Len(apis_to_validate), configured_apis |-> 0,
                  working_apis |-> 0, critical_apis_working |-> 0,
                  system_ready |-> FALSE]]

\* d[name] = entry
SetItem(d, name, entry) ==
    [n \in DOMAIN d \cup {name} |-> IF n = name THEN entry ELSE d[n]]

\* The mapping with its last two results exchanged.
StatusOf_Exchanged(configured, working) ==
    IF working THEN "OK" ELSE IF configured THEN "NOT_CONFIGURED" ELSE "ERROR"

StatusOf(configured, working) ==
    IF working THEN "OK" ELSE IF configured THEN "ERROR" ELSE "NOT_CONFIGURED"

\* The try body after the probe returned r: the entry and the counters.
RecordOutcome(res, api, r) ==
    [res EXCEPT
       !.apis = SetItem(@, api.name,
                    [configured |-> r.configured, working |-> r.working,
                     priority |-> api.priority, details |-> r.details,
                     status |-> StatusOf(r.configured, r.working)]),
       !.summary.configured_apis = IF r.configured THEN @ + 1 ELSE @,
       !.summary.working_apis = IF r.working THEN @ + 1 ELSE @,
       !.summary.critical_apis_working =
            IF r.working /\ api.priority = "CRITICAL" THEN @ + 1 ELSE @]

\* An except branch that logs the fault and writes no entry.
RecordFault_NoEntry(res, api, n) == res

\* The except branch: the entry the engine writes for a fault whose message
\* has n characters.
RecordFault(res, api, n) ==
    [res EXCEPT
       !.apis = SetItem(@, api.name,
                    [configured |-> FALSE, working |-> FALSE,
                     priority |-> api.priority,
                     details |-> Details("Erro na validacao: ", n),
                     status |-> "ERROR"])]

\* Where an iteration of the loop raises, inside its try block:
\*   "none"  nowhere
\*   "probe" in validator_func(): a fault leaves the probe. A probe reads its
\*           keys and returns, or runs its live call inside its own
\*           try/except Exception, so a fault leaves it only from its except
\*           branch, after the live call raised
\*   "print" in the print() that ends the try body, after the entry and the
\*           counters were written
Faults ==
    {[at |-> "none", msgLen |-> 0]}
        \cup {[at |-> a, msgLen |-> n] : a \in {"probe", "print"}, n \in MsgLens}

CanRaise(api, e, live, fault) ==
    fault.at = "probe" =>
        validator_func(api.name, e, live).called /\ live.kind = "raises"

\* An iteration whose except branch leaves an entry already written as it is.
Iteration_KeepsEntry(res, api, e, live, fault) ==
    LET r == validator_func(api.name, e, live) IN
    IF fault.at = "probe"
    THEN RecordFault(res, api, fault.msgLen)
    ELSE RecordOutcome(res, api, r)

\* One iteration of the for loop.
Iteration(res, api, e, live, fault) ==
    LET r == validator_func(api.name, e, live) IN
    IF fault.at = "probe"
    THEN RecordFault(res, api, fault.msgLen)
    ELSE IF fault.at = "print"
         THEN RecordFault(RecordOutcome(res, api, r), api, fault.msgLen)
         ELSE RecordOutcome(res, api, r)

\* The count taken after the loop.
CriticalWorking(apis) ==
    Cardinality({n \in DOMAIN apis :
                    apis[n].priority = "CRITICAL" /\ apis[n].working})

RecommendedWorking(apis) ==
    Cardinality({n \in DOMAIN apis :
                    apis[n].priority = "RECOMMENDED" /\ apis[n].working})

SystemReady(critical_working) == critical_working >= 2

\* The report as validate_all_apis stores and returns it.
Finished(res) ==
    [res EXCEPT !.summary.system_ready = SystemReady(CriticalWorking(res.apis))]

\* The levels with BASIC granted from one critical provider on.
ReadinessLevel_BasicFromOne(critical_working, recommended_working) ==
    IF critical_working >= 2 /\ recommended_working >= 1 THEN "FULL"
    ELSE IF critical_working >= 1 THEN "BASIC"
    ELSE "NOT_READY"

ReadinessLevel(critical_working, recommended_working) ==
    IF critical_working >= 2 /\ recommended_working >= 1 THEN "FULL"
    ELSE IF critical_working >= 2 THEN "BASIC"
    ELSE IF critical_working >= 1 THEN "LIMITED"
    ELSE "NOT_READY"

\* The dict get_system_readiness returns for the stored report vr.
Verdict(vr) ==
    LET critical_working == CriticalWorking(vr.apis)
        recommended_working == RecommendedWorking(vr.apis)
        readiness_level == ReadinessLevel(critical_working, recommended_working)
    IN [level |-> readiness_level,
        critical_working |-> critical_working,
        recommended_working |-> recommended_working,
        total_working |-> vr.summary.working_apis,
        system_ready |-> readiness_level \in {"FULL", "BASIC"}]

\* The dict get_system_readiness returns when `apis` was read from one
\* report and summary.working_apis from the report vr.
VerdictFrom(apis, vr) == Verdict([apis |-> apis, summary |-> vr.summary])

\* "if not self.validation_results" that holds of every dict.
NeedsPass_Always(vr) == TRUE

\* "if not self.validation_results": a dict with no key is false.
NeedsPass(vr) == IsEmptyDict(vr)

NoValue == [k \in {} |-> 0]

NoProbe == [name |-> "none", live |-> "not_called", fault |-> "none"]

\* validate_all_apis up to its loop.
EnterPass(who) ==
    /\ results' = NewResults(now)
    /\ now' = now + 1
    /\ idx' = 1
    /\ live_calls' = {}
    /\ last_probe' = NoProbe
    /\ caller' = who
    /\ pc' = "loop"

\* The program calls api_validator.validate_all_apis().
CallValidateAllApis ==
    /\ pc = "start"
    /\ EnterPass("main")
    /\ UNCHANGED <<env, validation_results, last_validation, returned, readiness,
                   loader_vars, other_vars>>

ProbeStep ==
    /\ pc = "loop"
    /\ idx <= Len(apis_to_validate)
    /\ \E live \in LiveOutcomes(apis_to_validate[idx].name), fault \in Faults :
          /\ CanRaise(apis_to_validate[idx], env, live, fault)
          /\ results' = Iteration(results, apis_to_validate[idx], env, live, fault)
          /\ live_calls' =
                IF validator_func(apis_to_validate[idx].name, env, live).called
                THEN live_calls \cup {apis_to_validate[idx].name}
                ELSE live_calls
          /\ last_probe' =
                [name |-> apis_to_validate[idx].name,
                 live |-> IF validator_func(apis_to_validate[idx].name, env,
                                            live).called
                          THEN live.kind ELSE "not_called",
                 fault |-> fault.at]
    /\ idx' = idx + 1
    /\ UNCHANGED <<env, validation_results, last_validation, now, pc, caller,
                   returned, readiness, loader_vars, other_vars>>

\* After the loop: system_ready, the two stores and the return. When the pass
\* was called by get_system_readiness, that call goes on to its verdict.
ValidateFinish ==
    /\ pc = "loop"
    /\ idx > Len(apis_to_validate)
    /\ validation_results' = Finished(results)
    /\ last_validation' = now
    /\ now' = now + 1
    /\ returned' = Finished(results)
    /\ readiness' = IF caller = "readiness" THEN Verdict(Finished(results))
                    ELSE readiness
    /\ caller' = "main"
    /\ pc' = "ready"
    /\ last_probe' = NoProbe
    /\ UNCHANGED <<env, results, idx, live_calls, loader_vars, other_vars>>

\* The program calls api_validator.get_system_readiness(): with no report
\* stored it runs a pass first, otherwise it returns the verdict of the stored
\* report.
CallGetSystemReadiness ==
    /\ pc \in {"start", "ready"}
    /\ IF IsEmptyDict(validation_results)
       THEN /\ EnterPass("readiness")
            /\ UNCHANGED <<env, validation_results, last_validation, returned,
                           readiness, loader_vars, other_vars>>
       ELSE /\ readiness' = Verdict(validation_results)
            /\ UNCHANGED <<env, validation_results, last_validation, now, pc,
                           caller, results, idx, live_calls, last_probe,
                           returned, loader_vars, other_vars>>

-----------------------------------------------------------------------------
\* The environment loader.

\* A candidate path that holds no file.
NoFile == [exists |-> FALSE, readable |-> FALSE, content |-> [k \in {} |-> ""]]

\* A file: the keys it defines (KEY=value, or KEY= for the empty value) and
\* whether it can be opened and decoded.
File(readable, content) == [exists |-> TRUE, readable |-> readable, content |-> content]

\* The candidate paths of env_paths, in order.
env_paths == 1..5

\* The first candidate for which os.path.exists holds, 0 when there is none.
FirstFound(files) ==
    LET found == {i \in env_paths : files[i].exists} IN
    IF found = {} THEN 0 ELSE CHOOSE i \in found : \A j \in found : i <= j

\* load_dotenv(env_path) without override: a key os.environ holds is kept.
load_dotenv_NoOverride(e, file) ==
    [k \in DOMAIN e |->
        IF k \in DOMAIN file.content /\ e[k] = Absent THEN file.content[k] ELSE e[k]]

\* load_dotenv(env_path, override=True) on a readable file: every key the
\* file defines is written to os.environ, over the value it had.
load_dotenv(e, file) ==
    [k \in DOMAIN e |-> IF k \in DOMAIN file.content THEN file.content[k] ELSE e[k]]

\* "if not os.getenv(var_name): os.environ[var_name] = default_value" over the
\* keys of one dict.
InjectMissing(e, names, value) ==
    [k \in DOMAIN e |-> IF k \in Range(names) /\ ~Truthy(e[k]) THEN value ELSE e[k]]

\* validate_critical_variables: the environment it leaves and missing_vars.
validate_critical_variables(e) ==
    LET injected == InjectMissing(InjectMissing(e, required_vars, "fallback"),
                                  recommended_vars, "fallback")
    IN [env |-> injected,
        missing_vars |-> SelectSeq(required_vars, LAMBDA k : ~Truthy(injected[k]))]

set_default_values(e) == InjectMissing(e, defaults, "default")

\* load_environment on the loader state st = [env, env_loaded, missing_vars].
\* An ImportError of dotenv is caught by the inner handler; a fault of
\* load_dotenv is caught by the outer one, which ends the method.
load_environment(st, installed, files) ==
    LET i == FirstFound(files)
        load_raises == installed /\ i # 0 /\ ~files[i].readable
        searched ==
            IF installed /\ i # 0
            THEN [st EXCEPT !.env = load_dotenv(st.env, files[i]),
                            !.env_loaded = TRUE]
            ELSE st
        validated == validate_critical_variables(searched.env)
    IN IF load_raises
       THEN st
       ELSE [env |-> set_default_values(validated.env),
             env_loaded |-> searched.env_loaded,
             missing_vars |-> validated.missing_vars]

\* "from services.environment_loader import environment_loader": the module
\* creates its EnvironmentLoader, whose __init__ runs load_environment.
ImportEnvironmentLoader ==
    /\ pc = "boot"
    /\ LET st == load_environment(
                    [env |-> env, env_loaded |-> FALSE, missing_vars |-> <<>>],
                    dotenv_installed, env_files)
       IN /\ env' = st.env
          /\ env_loaded' = st.env_loaded
          /\ missing_vars' = st.missing_vars
    /\ loads' = loads + 1
    /\ pc' = "up"
    /\ UNCHANGED <<validation_results, last_validation, now, caller, results, idx,
                   live_calls, last_probe, returned, readiness, inherited,
                   dotenv_installed, env_files, other_vars>>

\* ensure_environment_loaded()
EnsureEnvironmentLoaded ==
    /\ pc = "up"
    /\ env_loaded \/ loads < MaxLoads
    /\ loads' = IF ~env_loaded THEN loads + 1 ELSE loads
    /\ LET st == IF ~env_loaded
                 THEN load_environment(
                         [env |-> env, env_loaded |-> env_loaded,
                          missing_vars |-> missing_vars],
                         dotenv_installed, env_files)
                 ELSE [env |-> env, env_loaded |-> env_loaded,
                       missing_vars |-> missing_vars]
       IN /\ env' = st.env
          /\ env_loaded' = st.env_loaded
          /\ missing_vars' = st.missing_vars
    /\ UNCHANGED <<validator_vars, inherited, dotenv_installed, env_files,
                   other_vars>>

\* The environments a process inherits: the keys below take the values
\* listed, every other key is absent.
InheritedEnvs ==
    {[k \in Keys |->
        CASE k = "SUPABASE_URL" -> a
          [] k = "SUPABASE_ANON_KEY" -> b
          [] k = "GEMINI_API_KEY" -> c
          [] k = "GROQ_API_KEY" -> d
          [] k = "OPENAI_API_KEY" -> f
          [] k = "PORT" -> g
          [] OTHER -> Absent] :
        a \in {Absent, "", "env"}, b \in {Absent, "env"}, c \in {Absent, "env"},
        d \in {Absent, "env"}, f \in {Absent, "env"}, g \in {Absent, "env"}}

\* The contents of a .env file: each of the keys below is left out, defined
\* empty (KEY=) or defined with a value; GEMINI_API_KEY is left out or
\* defined with a value.
FileContents ==
    {c \in UNION {[ks -> {"", "file"}] :
                    ks \in SUBSET {"SUPABASE_URL", "GEMINI_API_KEY", "GROQ_API_KEY",
                                   "OPENAI_API_KEY", "PORT"}} :
        "GEMINI_API_KEY" \in DOMAIN c => c["GEMINI_API_KEY"] = "file"}

\* The file systems: no .env at any candidate path, one .env at the first or
\* at the last path, or one at the second path and another at the fourth.
FileSystems ==
    {[i \in env_paths |-> NoFile]}
        \cup {[i \in env_paths |-> IF i = p THEN f ELSE NoFile] :
                p \in {1, 5},
                f \in {File(TRUE, c) : c \in FileContents}
                          \cup {File(FALSE, [k \in {} |-> ""])}}
        \cup {[i \in env_paths |->
                 IF i = 2 THEN f
                 ELSE IF i = 4 THEN File(TRUE, [k \in {"PORT"} |-> "file"])
                 ELSE NoFile] :
                f \in {File(TRUE, [k \in {"GEMINI_API_KEY"} |-> "file"]),
                       File(FALSE, [k \in {} |-> ""])}}

-----------------------------------------------------------------------------
\* The status report of the loader. A value of os.environ is kept as the tag
\* of its origin; its length is the length of the literal of the source for an
\* injected value and supplied_len for a value the user supplied.

\* len() of the values validate_critical_variables injects.
FallbackLen ==
    [k \in Range(required_vars) \cup Range(recommended_vars) |->
        CASE k = "SUPABASE_URL" -> 40
          [] k = "SUPABASE_ANON_KEY" -> 208
          [] k = "GEMINI_API_KEY" -> 39
          [] k = "GROQ_API_KEY" -> 56
          [] k = "GOOGLE_SEARCH_KEY" -> 39
          [] k = "GOOGLE_CSE_ID" -> 17]

\* len(os.getenv(k, '')) for a provider key k.
ValueLen(e, lens, k) ==
    CASE ~Truthy(e[k]) -> 0
      [] e[k] = "fallback" -> FallbackLen[k]
      [] OTHER -> lens[k]

\* [:10]
PreviewLen == 10

\* f"{os.getenv(k, '')[:10]}..." if os.getenv(k) else 'Not configured': the
\* first `shown` characters of the value of k followed by an ellipsis.
key_preview(e, lens, k) ==
    IF Truthy(e[k])
    THEN [text |-> "prefix...", key |-> k,
          shown |-> SliceLen(ValueLen(e, lens, k), PreviewLen)]
    ELSE [text |-> "Not configured", key |-> k, shown |-> 0]

\* os.getenv('SUPABASE_URL', 'Not configured'): the value in full.
url_value(e, lens) ==
    IF e["SUPABASE_URL"] = Absent
    THEN [text |-> "Not configured", key |-> "SUPABASE_URL", shown |-> 0]
    ELSE [text |-> "value", key |-> "SUPABASE_URL",
          shown |-> ValueLen(e, lens, "SUPABASE_URL")]

\* The key whose preview the report of a provider carries.
PreviewKey(name) ==
    CASE name = "gemini" -> "GEMINI_API_KEY"
      [] name = "groq" -> "GROQ_API_KEY"
      [] name = "openai" -> "OPENAI_API_KEY"
      [] name = "google_search" -> "GOOGLE_SEARCH_KEY"
      [] name = "serper" -> "SERPER_API_KEY"
      [] name = "jina" -> "JINA_API_KEY"

get_api_status(e, lens) ==
    [n \in ProviderNames |->
        IF n = "supabase"
        THEN [configured |-> Truthy(e["SUPABASE_URL"])
                                /\ Truthy(e["SUPABASE_ANON_KEY"]),
              url |-> url_value(e, lens),
              priority |-> "CRITICAL"]
        ELSE [configured |->
                  IF n = "google_search"
                  THEN Truthy(e["GOOGLE_SEARCH_KEY"]) /\ Truthy(e["GOOGLE_CSE_ID"])
                  ELSE Truthy(e[PreviewKey(n)]),
              key_preview |-> key_preview(e, lens, PreviewKey(n)),
              priority |-> CASE n = "gemini" -> "CRITICAL"
                             [] n \in {"groq", "google_search"} -> "RECOMMENDED"
                             [] OTHER -> "OPTIONAL"]]

\* A line print_configuration_status does not write.
NoLine == [text |-> "", key |-> "", shown |-> 0]

\* What print_configuration_status writes: per provider the word of its
\* first line and the value of its second line, and the two counts of the
\* summary.
print_configuration_status(apis) ==
    [lines |->
        [n \in DOMAIN apis |->
            [word |-> IF apis[n].configured THEN "CONFIGURADO" ELSE "AUSENTE",
             value |-> IF apis[n].configured /\ "key_preview" \in DOMAIN apis[n]
                       THEN apis[n].key_preview
                       ELSE IF apis[n].configured /\ "url" \in DOMAIN apis[n]
                            THEN apis[n].url
                            ELSE NoLine]],
     critical_configured |->
        Cardinality({n \in DOMAIN apis :
                        apis[n].priority = "CRITICAL" /\ apis[n].configured}),
     critical_total |->
        Cardinality({n \in DOMAIN apis : apis[n].priority = "CRITICAL"})]

\* environment_loader.get_api_status()
GetApiStatus ==
    /\ pc = "up"
    /\ api_status' = get_api_status(env, supplied_len)
    /\ UNCHANGED <<env, validator_vars, loader_vars, supplied_len, printed,
                   success, exit_status, escaped, components, thread_vars,
                   reset_vars, live_vars>>

\* environment_loader.print_configuration_status()
PrintConfigurationStatus ==
    /\ pc = "up"
    /\ api_status' = get_api_status(env, supplied_len)
    /\ printed' = print_configuration_status(get_api_status(env, supplied_len))
    /\ UNCHANGED <<env, validator_vars, loader_vars, supplied_len, success,
                   exit_status, escaped, components, thread_vars, reset_vars,
                   live_vars>>

-----------------------------------------------------------------------------
\* validate_system.py. A step of main() that prints may raise in a print();
\* `escaped` tells where a fault was last caught:
\*   "none"     nowhere outside a component check
\*   "main"     by the except of main(), having left its try block
\*   "uncaught" by nothing: it left main() or the module's last lines

\* sys.exit(1 if success else 0)
ExitStatus_Inverted(ok) == IF ok THEN 1 ELSE 0

\* sys.exit(0 if success else 1)
ExitStatus(ok) == IF ok THEN 0 ELSE 1

\* The exit status of an interpreter that ends on an uncaught exception.
UncaughtStatus == ExitStatus(FALSE)

\* The component checks of main(), in order, and what follows the last.
AfterComponent(c) ==
    CASE c = "ai_manager" -> "search_manager"
      [] c = "search_manager" -> "database"
      [] c = "database" -> "report"

\* What a component check meets: its body returns, its body raises and the
\* except of the check prints the fault, or that print() raises in turn.
ComponentOutcomes == {"ok", "raises", "handler_raises"}

\* Lines 19 to 24: the banner, outside the try block, and the first print()
\* inside it.
MainStart ==
    /\ pc = "main"
    /\ \E fault \in {"none", "banner", "try"} :
          IF fault = "none"
          THEN pc' = "boot" /\ UNCHANGED <<escaped, exit_status>>
          ELSE IF fault = "banner"
               THEN /\ pc' = "exited"
                    /\ escaped' = "uncaught"
                    /\ exit_status' = UncaughtStatus
               ELSE /\ pc' = "except"
                    /\ escaped' = "main"
                    /\ UNCHANGED exit_status
    /\ UNCHANGED <<env, validation_results, last_validation, now, caller, results,
                   idx, live_calls, last_probe, returned, readiness, loader_vars,
                   supplied_len, api_status, printed, success, components,
                   thread_vars, reset_vars, live_vars>>

\* Lines 26 to 29: environment_loader.print_configuration_status() and the
\* print() that follows it.
MainPrintConfigurationStatus ==
    /\ pc = "up"
    /\ \E fault \in {"none", "status", "after"} :
          /\ IF fault = "status"
             THEN UNCHANGED <<api_status, printed>>
             ELSE /\ api_status' = get_api_status(env, supplied_len)
                  /\ printed' = print_configuration_status(
                                    get_api_status(env, supplied_len))
          /\ IF fault = "none"
             THEN pc' = "start" /\ UNCHANGED escaped
             ELSE pc' = "except" /\ escaped' = "main"
    /\ UNCHANGED <<env, validation_results, last_validation, now, caller, results,
                   idx, live_calls, last_probe, returned, readiness, loader_vars,
                   supplied_len, success, exit_status, components, thread_vars,
                   reset_vars, live_vars>>

\* Lines 34 to 44: api_validator.get_system_readiness() with a report stored,
\* and the prints of the verdict.
MainGetSystemReadiness ==
    /\ pc = "ready"
    /\ readiness' = Verdict(validation_results)
    /\ \E fault \in BOOLEAN :
          IF fault
          THEN pc' = "except" /\ escaped' = "main"
          ELSE pc' = "ai_manager" /\ UNCHANGED escaped
    /\ UNCHANGED <<env, validation_results, last_validation, now, caller, results,
                   idx, live_calls, last_probe, returned, loader_vars,
                   supplied_len, api_status, printed, success, exit_status,
                   components, thread_vars, reset_vars, live_vars>>

\* Lines 47 to 70: one of the three component checks.
MainCheckComponent ==
    /\ pc \in {"ai_manager", "search_manager", "database"}
    /\ \E outcome \in ComponentOutcomes :
          /\ components' = [components EXCEPT ![pc] = outcome]
          /\ IF outcome = "handler_raises"
             THEN pc' = "except" /\ escaped' = "main"
             ELSE pc' = AfterComponent(pc) /\ UNCHANGED escaped
    /\ UNCHANGED <<env, validator_vars_but_pc, loader_vars, supplied_len,
                   api_status, printed, success, exit_status, thread_vars,
                   reset_vars, live_vars>>

\* Lines 73 to 109: the final report and the return of main().
MainReport ==
    /\ pc = "report"
    /\ \E fault \in BOOLEAN :
          IF fault
          THEN pc' = "except" /\ escaped' = "main" /\ UNCHANGED success
          ELSE /\ pc' = "returned"
               /\ success' = readiness.system_ready
               /\ UNCHANGED escaped
    /\ UNCHANGED <<env, validator_vars_but_pc, loader_vars, supplied_len,
                   api_status, printed, exit_status, components, thread_vars,
                   reset_vars, live_vars>>

\* Lines 111 to 113: the except of main().
MainExcept ==
    /\ pc = "except"
    /\ \E fault \in BOOLEAN :
          IF fault
          THEN /\ pc' = "exited"
               /\ escaped' = "uncaught"
               /\ exit_status' = UncaughtStatus
               /\ UNCHANGED success
          ELSE /\ pc' = "returned"
               /\ success' = FALSE
               /\ UNCHANGED <<escaped, exit_status>>
    /\ UNCHANGED <<env, validator_vars_but_pc, loader_vars, supplied_len,
                   api_status, printed, components, thread_vars, reset_vars,
                   live_vars>>

\* Lines 116 to 125: the prints after main() and sys.exit.
MainExit ==
    /\ pc = "returned"
    /\ pc' = "exited"
    /\ \E fault \in BOOLEAN :
          IF fault
          THEN escaped' = "uncaught" /\ exit_status' = UncaughtStatus
          ELSE exit_status' = ExitStatus(success) /\ UNCHANGED escaped
    /\ UNCHANGED <<env, validator_vars_but_pc, loader_vars, supplied_len,
                   api_status, printed, success, components, thread_vars,
                   reset_vars, live_vars>>

-----------------------------------------------------------------------------
\* The shared api_validator used by request threads. A report dict is an
\* object of the heap, known by its position in `heap`; validation_results
\* and the locals of a thread hold references, 0 being the empty dict of
\* __init__. A thread is at
\*   "idle"   between two calls
\*   "loop"   line 54, its dict created
\*   "store"  line 98
\*   "stamp"  line 99
\*   "return" line 101
\*   "apis"   line 288
\*   "total"  line 317, its counts taken

Deref(ref) == IF ref = 0 THEN EmptyDict ELSE heap[ref]

IdleThread ==
    [pc |-> "idle", op |-> "none", validation_results |-> 0, apis |-> 0,
     ret |-> [kind |-> "none", ref |-> 0, verdict |-> NoValue]]

\* What the providers do during one pass: every live call succeeds; the
\* storage backend alone answers; no provider answers; every live call
\* succeeds and the print() of the first iteration raises.
WorldNames == {"all_ok", "storage_only", "none_ok", "print_fault"}

World(w) ==
    [n \in ProviderNames |->
        [live |-> IF w \in {"all_ok", "print_fault"}
                       \/ (w = "storage_only" /\ n = "supabase")
                  THEN [kind |-> "ok", msgLen |-> 0]
                  ELSE [kind |-> "raises", msgLen |-> MaxMsgLen],
         fault |-> IF w = "print_fault" /\ n = "supabase"
                   THEN [at |-> "print", msgLen |-> MaxMsgLen]
                   ELSE [at |-> "none", msgLen |-> 0]]]

\* The for loop from its i-th iteration on.
RECURSIVE RunLoop(_, _, _, _)
RunLoop(res, e, world, i) ==
    IF i > Len(apis_to_validate)
    THEN res
    ELSE RunLoop(Iteration(res, apis_to_validate[i], e,
                           world[apis_to_validate[i].name].live,
                           world[apis_to_validate[i].name].fault),
                 e, world, i + 1)

\* Lines 29 to 39 in thread t: a new dict.
NewPass(t, op) ==
    /\ Len(heap) < MaxPasses
    /\ heap' = Append(heap, NewResults(now))
    /\ now' = now + 1
    /\ passes' = Append(passes, [thread |-> t, world |-> "none", stamp |-> 0])
    /\ threads' = [threads EXCEPT ![t].pc = "loop", ![t].op = op,
                                  ![t].validation_results = Len(heap) + 1]

\* Thread t calls api_validator.validate_all_apis().
ThreadCallValidateAllApis ==
    \E t \in DOMAIN threads :
        /\ threads[t].pc = "idle"
        /\ NewPass(t, "validate_all_apis")
        /\ UNCHANGED <<env, validation_results, last_validation, pc, caller,
                       results, idx, live_calls, last_probe, returned, readiness,
                       loader_vars, main_vars, reset_vars,
                       live_vars>>

\* Lines 54 to 96 in thread t: the loop and system_ready, on its own dict.
ThreadLoop ==
    \E t \in DOMAIN threads, w \in WorldNames :
        /\ threads[t].pc = "loop"
        /\ heap' = [heap EXCEPT ![threads[t].validation_results] =
                        Finished(RunLoop(@, env, World(w), 1))]
        /\ passes' = [passes EXCEPT ![threads[t].validation_results].world = w]
        /\ threads' = [threads EXCEPT ![t].pc = "store"]
        /\ UNCHANGED <<env, validator_vars, loader_vars, main_vars, reset_vars, live_vars>>

\* Line 98 in thread t: self.validation_results = validation_results
ThreadStoreResults ==
    \E t \in DOMAIN threads :
        /\ threads[t].pc = "store"
        /\ validation_results' = threads[t].validation_results
        /\ threads' = [threads EXCEPT ![t].pc = "stamp"]
        /\ UNCHANGED <<env, last_validation, now, pc, caller, results, idx,
                       live_calls, last_probe, returned, readiness, loader_vars,
                       main_vars, heap, passes, reset_vars,
                       live_vars>>

\* Line 99 in thread t: self.last_validation = time.time()
ThreadStoreTime ==
    \E t \in DOMAIN threads :
        /\ threads[t].pc = "stamp"
        /\ last_validation' = now
        /\ now' = now + 1
        /\ passes' = [passes EXCEPT ![threads[t].validation_results].stamp = now]
        /\ threads' = [threads EXCEPT ![t].pc = "return"]
        /\ UNCHANGED <<env, validation_results, pc, caller, results, idx,
                       live_calls, last_probe, returned, readiness, loader_vars,
                       main_vars, heap, reset_vars, live_vars>>

\* Line 101 in thread t: the dict goes to the caller, or get_system_readiness
\* goes on from line 288.
ThreadReturn ==
    \E t \in DOMAIN threads :
        /\ threads[t].pc = "return"
        /\ threads' =
              IF threads[t].op = "validate_all_apis"
              THEN [threads EXCEPT
                      ![t].pc = "idle",
                      ![t].ret = [kind |-> "report",
                                  ref |-> threads[t].validation_results,
                                  verdict |-> NoValue]]
              ELSE [threads EXCEPT ![t].pc = "apis"]
        /\ UNCHANGED <<env, validator_vars, loader_vars, main_vars, heap, passes,
                       reset_vars, live_vars>>

\* Thread t calls api_validator.get_system_readiness(): lines 285 and 286.
ThreadCallGetSystemReadiness ==
    \E t \in DOMAIN threads :
        /\ threads[t].pc = "idle"
        /\ IF NeedsPass(Deref(validation_results))
           THEN NewPass(t, "get_system_readiness")
           ELSE /\ threads' = [threads EXCEPT ![t].pc = "apis",
                                              ![t].op = "get_system_readiness"]
                /\ UNCHANGED <<now, heap, passes>>
        /\ UNCHANGED <<env, validation_results, last_validation, pc, caller,
                       results, idx, live_calls, last_probe, returned, readiness,
                       loader_vars, main_vars, reset_vars,
                       live_vars>>

\* Lines 288 to 310 in thread t: apis = self.validation_results['apis'] and
\* the counts over it.
ThreadReadApis ==
    \E t \in DOMAIN threads :
        /\ threads[t].pc = "apis"
        /\ threads' = [threads EXCEPT ![t].pc = "total",
                                      ![t].apis = validation_results]
        /\ UNCHANGED <<env, validator_vars, loader_vars, main_vars, heap, passes,
                       reset_vars, live_vars>>

\* Lines 312 to 319 in thread t: the dict returned, its total_working read
\* from self.validation_results.
ThreadReadTotal ==
    \E t \in DOMAIN threads :
        /\ threads[t].pc = "total"
        /\ threads' =
              [threads EXCEPT
                 ![t].pc = "idle",
                 ![t].ret = [kind |-> "verdict", ref |-> validation_results,
                             verdict |-> VerdictFrom(Deref(threads[t].apis).apis,
                                                     Deref(validation_results))]]
        /\ UNCHANGED <<env, validator_vars, loader_vars, main_vars, heap, passes,
                       reset_vars, live_vars>>

-----------------------------------------------------------------------------
\* A pass seen call by call. A probe that holds its credentials issues its
\* live call and blocks on it (pc = "call") until the call returns or
\* raises; validate_all_apis has no deadline of its own. The providers of
\* `silent` accept the call and never answer it.

\* The call is made without a timeout argument.
NoTimeout == 0

\* timeout= of the live call of each probe: requests.get and requests.post
\* at lines 216, 246 and 272; the client calls of the other four probes
\* (lines 117, 136, 158 and 184) are given none.
ProbeTimeout(name) ==
    CASE name \in {"google_search", "serper"} -> 10
      [] name = "jina" -> 15
      [] OTHER -> NoTimeout

NoCall == [name |-> "none", timeout |-> NoTimeout, bounded |-> FALSE]

NoFault == [at |-> "none", msgLen |-> 0]

\* The provider answers as the probe expects.
Answer == [kind |-> "ok", msgLen |-> 0]

\* requests raises Timeout, or the client library gives up: the live call
\* raises inside the probe's try block.
TimedOut == [kind |-> "raises", msgLen |-> MaxMsgLen]

\* Whether a call given no timeout argument still ends when the provider is
\* silent rests on the client library installed, which these sources neither
\* hold nor configure: both are possible.
Bounded(name) == IF ProbeTimeout(name) # NoTimeout THEN {TRUE} ELSE BOOLEAN

\* The iteration of the loop ends with the live call having done `live`.
EndIteration(live) ==
    /\ results' = Iteration(results, apis_to_validate[idx], env, live, NoFault)
    /\ last_probe' =
          [name |-> apis_to_validate[idx].name,
           live |-> IF validator_func(apis_to_validate[idx].name, env, live).called
                    THEN live.kind ELSE "not_called",
           fault |-> "none"]
    /\ idx' = idx + 1
    /\ inflight' = NoCall
    /\ pc' = "loop"

\* The probe of this iteration starts: it returns at once without its
\* credentials, otherwise it issues its live call.
ProbeBegin ==
    /\ pc = "loop"
    /\ idx <= Len(apis_to_validate)
    /\ IF ~validator_func(apis_to_validate[idx].name, env, Answer).called
       THEN /\ EndIteration(Answer)
            /\ UNCHANGED live_calls
       ELSE /\ \E b \in Bounded(apis_to_validate[idx].name) :
                  inflight' = [name |-> apis_to_validate[idx].name,
                               timeout |-> ProbeTimeout(apis_to_validate[idx].name),
                               bounded |-> b]
            /\ live_calls' = live_calls \cup {apis_to_validate[idx].name}
            /\ pc' = "call"
            /\ UNCHANGED <<results, idx, last_probe>>
    /\ UNCHANGED <<env, validation_results, last_validation, now, caller,
                   returned, readiness, loader_vars, main_vars, thread_vars,
                   reset_vars, silent>>

\* The provider answers the call in flight.
LiveCallAnswers ==
    /\ pc = "call"
    /\ inflight.name \notin silent
    /\ EndIteration(Answer)
    /\ UNCHANGED <<env, validation_results, last_validation, now, caller,
                   live_calls, returned, readiness, loader_vars, main_vars,
                   thread_vars, reset_vars, silent>>

\* The provider stays silent and the call in flight is bounded: it raises.
LiveCallTimesOut ==
    /\ pc = "call"
    /\ inflight.name \in silent
    /\ inflight.bounded
    /\ EndIteration(TimedOut)
    /\ UNCHANGED <<env, validation_results, last_validation, now, caller,
                   live_calls, returned, readiness, loader_vars, main_vars,
                   thread_vars, reset_vars, silent>>

-----------------------------------------------------------------------------
\* The reset handler of run.py and the two runtime fallback managers it
\* calls. The managers are not part of these sources: they are kept to the
\* interface the handler uses, get_provider_status() and
\* reset_provider_errors(provider or None), over an error count per provider.

\* No value: Python's None.
None == "<None>"

AiProviders == {"gemini", "groq"}

SearchProviders == {"google", "serper"}

\* A manager of a new process: no error counted.
NewManager(providers) == [p \in providers |-> 0]

\* manager.get_provider_status()
get_provider_status(manager) ==
    [p \in DOMAIN manager |->
        [available |-> manager[p] < MaxErrors, errors |-> manager[p]]]

\* manager.reset_provider_errors(provider_name): every provider when no name
\* is given, the named one otherwise; a name the manager does not know
\* leaves it as it is.
reset_provider_errors(manager, provider_name) ==
    [p \in DOMAIN manager |->
        IF provider_name = None \/ provider_name = p THEN 0 ELSE manager[p]]

\* Lines 162 to 172 with both branches calling both managers.
ResetDispatch_Both(provider_type, provider_name) ==
    IF provider_type \in {"ai", "search"}
    THEN [ai |-> TRUE, search |-> TRUE, name |-> provider_name,
          message |-> [text |-> "Reset erros de todos os provedores",
                       provider |-> None]]
    ELSE [ai |-> TRUE, search |-> TRUE, name |-> None,
          message |-> [text |-> "Reset erros de todos os provedores",
                       provider |-> None]]

\* Lines 162 to 172: which manager is reset, with which argument, and the
\* message.
ResetDispatch(provider_type, provider_name) ==
    IF provider_type = "ai"
    THEN [ai |-> TRUE, search |-> FALSE, name |-> provider_name,
          message |-> IF provider_name # None /\ provider_name # ""
                      THEN [text |-> "Reset erros do provedor de IA: ",
                            provider |-> provider_name]
                      ELSE [text |-> "Reset erros de todos os provedores de IA",
                            provider |-> None]]
    ELSE IF provider_type = "search"
         THEN [ai |-> FALSE, search |-> TRUE, name |-> provider_name,
               message |-> IF provider_name # None /\ provider_name # ""
                           THEN [text |-> "Reset erros do provedor de busca: ",
                                 provider |-> provider_name]
                           ELSE [text |-> "Reset erros de todos os provedores de busca",
                                 provider |-> None]]
         ELSE [ai |-> TRUE, search |-> TRUE, name |-> None,
               message |-> [text |-> "Reset erros de todos os provedores",
                            provider |-> None]]

\* The bodies a request can carry: 'type' and 'provider', None when the key
\* is left out.
Requests ==
    [type : {"ai", "search", "other", None},
     provider : {None} \cup AiProviders \cup SearchProviders]

\* A live call of a manager fails for a provider: the manager counts it.
RecordProviderError ==
    /\ pc = "serving"
    /\ \E m \in {"ai", "search"} :
          IF m = "ai"
          THEN /\ \E p \in AiProviders :
                     /\ ai_manager[p] < MaxErrors
                     /\ ai_manager' = [ai_manager EXCEPT ![p] = @ + 1]
               /\ UNCHANGED production_search_manager
          ELSE /\ \E p \in SearchProviders :
                     /\ production_search_manager[p] < MaxErrors
                     /\ production_search_manager' =
                            [production_search_manager EXCEPT ![p] = @ + 1]
               /\ UNCHANGED ai_manager
    /\ UNCHANGED <<env, validator_vars, loader_vars, main_vars, thread_vars,
                   response, live_vars>>

\* The reset handler, lines 157 to 189. A call of a manager may raise:
\*   "none"   no call raises
\*   "reset"  the first reset_provider_errors raises, nothing being reset
\*   "status" a get_provider_status raises, after the resets
ResetHandler ==
    /\ pc = "serving"
    /\ now <= MaxRequests
    /\ now' = now + 1
    /\ \E request \in Requests, fault \in {"none", "reset", "status"} :
          LET d == ResetDispatch(request.type, request.provider)
              ai == IF d.ai /\ fault # "reset"
                    THEN reset_provider_errors(ai_manager, d.name)
                    ELSE ai_manager
              search == IF d.search /\ fault # "reset"
                        THEN reset_provider_errors(production_search_manager, d.name)
                        ELSE production_search_manager
          IN /\ ai_manager' = ai
             /\ production_search_manager' = search
             /\ response' =
                   IF fault = "none"
                   THEN [request |-> request, code |-> 200, success |-> TRUE,
                         message |-> d.message,
                         ai_status |-> get_provider_status(ai),
                         search_status |-> get_provider_status(search),
                         timestamp |-> now]
                   ELSE [request |-> request, code |-> 500, success |-> FALSE,
                         message |-> [text |-> "str(e)", provider |-> None],
                         ai_status |-> NoValue, search_status |-> NoValue,
                         timestamp |-> now]
    /\ UNCHANGED <<env, validation_results, last_validation, pc, caller, results,
                   idx, live_calls, last_probe, returned, readiness, loader_vars,
                   main_vars, thread_vars, live_vars>>

-----------------------------------------------------------------------------
\* The specifications.

\* No exit status yet.
Running == 0 - 1

ComponentNames == {"ai_manager", "search_manager", "database"}

\* validate_system.py has not run.
MainIdle ==
    /\ api_status = NoValue
    /\ printed = NoValue
    /\ success = FALSE
    /\ exit_status = Running
    /\ escaped = "none"
    /\ components = [c \in ComponentNames |-> "not_run"]

\* No request thread.
ThreadsIdle ==
    /\ heap = <<>>
    /\ threads = <<>>
    /\ passes = <<>>

\* No runtime manager.
ResetIdle ==
    /\ ai_manager = NoValue
    /\ production_search_manager = NoValue
    /\ response = NoValue

\* No live call in flight, every provider answering.
LiveIdle ==
    /\ inflight = NoCall
    /\ silent = {}

\* The loader of a new process, under the environments and file systems it
\* can meet.
InitEnv ==
    /\ env \in InheritedEnvs
    /\ inherited = env
    /\ dotenv_installed \in BOOLEAN
    /\ env_files \in FileSystems
    /\ env_loaded = FALSE
    /\ missing_vars = <<>>
    /\ loads = 0
    /\ pc = "boot"
    /\ validation_results = EmptyDict
    /\ last_validation = 0
    /\ now = 1
    /\ caller = "main"
    /\ results = NoValue
    /\ idx = 1
    /\ live_calls = {}
    /\ last_probe = NoProbe
    /\ returned = NoValue
    /\ readiness = NoValue
    /\ supplied_len = [k \in Keys |-> MaxSecretLen]
    /\ MainIdle
    /\ ThreadsIdle
    /\ ResetIdle
    /\ LiveIdle

NextEnv ==
    \/ ImportEnvironmentLoader
    \/ EnsureEnvironmentLoaded

SpecEnv == InitEnv /\ [][NextEnv]_vars

-----------------------------------------------------------------------------
\* The engine of a new process, under the environments a pass can meet.

\* The provider keys that are set: all of them, none, or one alone.
InitEnvs ==
    {[k \in Keys |-> IF k \in ProviderKeys THEN "set" ELSE Absent]}
        \cup {[k \in Keys |-> Absent]}
        \cup {[k \in Keys |-> IF k = a THEN "set" ELSE Absent] : a \in ProviderKeys}

Init ==
    /\ env \in InitEnvs
    /\ validation_results = EmptyDict
    /\ last_validation = 0
    /\ now = 1
    /\ pc = "start"
    /\ caller = "main"
    /\ results = NoValue
    /\ idx = 1
    /\ live_calls = {}
    /\ last_probe = NoProbe
    /\ returned = NoValue
    /\ readiness = NoValue
    /\ env_loaded = FALSE
    /\ missing_vars = <<>>
    /\ loads = 0
    /\ inherited = env
    /\ dotenv_installed = TRUE
    /\ env_files = [i \in env_paths |-> NoFile]
    /\ supplied_len = [k \in Keys |-> MaxSecretLen]
    /\ MainIdle
    /\ ThreadsIdle
    /\ ResetIdle
    /\ LiveIdle

Next ==
    \/ CallValidateAllApis
    \/ ProbeStep
    \/ ValidateFinish
    \/ CallGetSystemReadiness

Spec == Init /\ [][Next]_vars

-----------------------------------------------------------------------------
\* The status report of the loader, under values of every length class.

\* The lengths of a supplied value: one character, as long as the preview,
\* one more, and the longest.
SecretLens == {1, PreviewLen, PreviewLen + 1, MaxSecretLen}

StatusEnvs ==
    {[k \in Keys |->
        CASE k = "SUPABASE_URL" -> a
          [] k = "GEMINI_API_KEY" -> b
          [] k = "OPENAI_API_KEY" -> c
          [] k = "SERPER_API_KEY" -> d
          [] k = "JINA_API_KEY" -> f
          [] OTHER -> Absent] :
        a \in {Absent, "", "env"}, b \in {Absent, "env"}, c \in {Absent, "env"},
        d \in {Absent, "env"}, f \in {Absent, "env"}}

InitStatus ==
    /\ env \in StatusEnvs
    /\ inherited = env
    /\ supplied_len \in {[k \in Keys |-> n] : n \in SecretLens}
    /\ dotenv_installed = TRUE
    /\ env_files = [i \in env_paths |-> NoFile]
    /\ env_loaded = FALSE
    /\ missing_vars = <<>>
    /\ loads = 0
    /\ pc = "boot"
    /\ validation_results = EmptyDict
    /\ last_validation = 0
    /\ now = 1
    /\ caller = "main"
    /\ results = NoValue
    /\ idx = 1
    /\ live_calls = {}
    /\ last_probe = NoProbe
    /\ returned = NoValue
    /\ readiness = NoValue
    /\ MainIdle
    /\ ThreadsIdle
    /\ ResetIdle
    /\ LiveIdle

NextStatus ==
    \/ ImportEnvironmentLoader
    \/ GetApiStatus
    \/ PrintConfigurationStatus

SpecStatus == InitStatus /\ [][NextStatus]_vars

-----------------------------------------------------------------------------
\* validate_system.py run as a script.

\* What the script inherits and finds: nothing inherited and no .env;
\* nothing inherited and a .env that cannot be read; the critical keys
\* inherited and a .env that cannot be read.
MainStarts ==
    {[env |-> [k \in Keys |-> Absent],
      env_files |-> [i \in env_paths |-> NoFile]],
     [env |-> [k \in Keys |-> Absent],
      env_files |-> [i \in env_paths |->
                        IF i = 1 THEN File(FALSE, [k \in {} |-> ""]) ELSE NoFile]],
     [env |-> [k \in Keys |-> IF k \in Range(required_vars) THEN "env" ELSE Absent],
      env_files |-> [i \in env_paths |->
                        IF i = 1 THEN File(FALSE, [k \in {} |-> ""]) ELSE NoFile]]}

InitMain ==
    /\ \E st \in MainStarts : env = st.env /\ env_files = st.env_files
    /\ inherited = env
    /\ supplied_len = [k \in Keys |-> MaxSecretLen]
    /\ dotenv_installed = TRUE
    /\ env_loaded = FALSE
    /\ missing_vars = <<>>
    /\ loads = 0
    /\ pc = "main"
    /\ validation_results = EmptyDict
    /\ last_validation = 0
    /\ now = 1
    /\ caller = "main"
    /\ results = NoValue
    /\ idx = 1
    /\ live_calls = {}
    /\ last_probe = NoProbe
    /\ returned = NoValue
    /\ readiness = NoValue
    /\ MainIdle
    /\ ThreadsIdle
    /\ ResetIdle
    /\ LiveIdle

NextMain ==
    \/ MainStart
    \/ ImportEnvironmentLoader
    \/ MainPrintConfigurationStatus
    \/ CallValidateAllApis
    \/ ProbeStep
    \/ ValidateFinish
    \/ MainGetSystemReadiness
    \/ MainCheckComponent
    \/ MainReport
    \/ MainExcept
    \/ MainExit

SpecMain == InitMain /\ [][NextMain]_vars

-----------------------------------------------------------------------------
\* The shared api_validator: called from one thread, as validate_system.py
\* does, and from the request threads of the threaded server.

InitThreadsOf(n) ==
    /\ env = [k \in Keys |-> IF k \in ProviderKeys THEN "set" ELSE Absent]
    /\ inherited = env
    /\ supplied_len = [k \in Keys |-> MaxSecretLen]
    /\ dotenv_installed = TRUE
    /\ env_files = [i \in env_paths |-> NoFile]
    /\ env_loaded = FALSE
    /\ missing_vars = <<>>
    /\ loads = 0
    /\ pc = "serving"
    /\ validation_results = 0
    /\ last_validation = 0
    /\ now = 1
    /\ caller = "main"
    /\ results = NoValue
    /\ idx = 1
    /\ live_calls = {}
    /\ last_probe = NoProbe
    /\ returned = NoValue
    /\ readiness = NoValue
    /\ MainIdle
    /\ heap = <<>>
    /\ passes = <<>>
    /\ threads = [t \in 1..n |-> IdleThread]
    /\ ResetIdle
    /\ LiveIdle

NextThreads ==
    \/ ThreadCallValidateAllApis
    \/ ThreadLoop
    \/ ThreadStoreResults
    \/ ThreadStoreTime
    \/ ThreadReturn
    \/ ThreadCallGetSystemReadiness
    \/ ThreadReadApis
    \/ ThreadReadTotal

InitSeq == InitThreadsOf(1)

SpecSeq == InitSeq /\ [][NextThreads]_vars

InitThreads == InitThreadsOf(MaxThreads)

SpecThreads == InitThreads /\ [][NextThreads]_vars

-----------------------------------------------------------------------------
\* The reset handler and the runtime managers of a serving process.

InitReset ==
    /\ env = [k \in Keys |-> IF k \in ProviderKeys THEN "set" ELSE Absent]
    /\ inherited = env
    /\ supplied_len = [k \in Keys |-> MaxSecretLen]
    /\ dotenv_installed = TRUE
    /\ env_files = [i \in env_paths |-> NoFile]
    /\ env_loaded = FALSE
    /\ missing_vars = <<>>
    /\ loads = 0
    /\ pc = "serving"
    /\ validation_results = EmptyDict
    /\ last_validation = 0
    /\ now = 1
    /\ caller = "main"
    /\ results = NoValue
    /\ idx = 1
    /\ live_calls = {}
    /\ last_probe = NoProbe
    /\ returned = NoValue
    /\ readiness = NoValue
    /\ MainIdle
    /\ ThreadsIdle
    /\ ai_manager = NewManager(AiProviders)
    /\ production_search_manager = NewManager(SearchProviders)
    /\ response = NoValue
    /\ LiveIdle

NextReset ==
    \/ RecordProviderError
    \/ ResetHandler

SpecReset == InitReset /\ [][NextReset]_vars

\* One pass of a new engine, call by call, under every set of silent
\* providers. The interpreter goes on running the pass, a provider that is
\* not silent answers and a bounded call ends: whatever step is possible is
\* taken in the end.
InitLive ==
    /\ env \in InitEnvs
    /\ validation_results = EmptyDict
    /\ last_validation = 0
    /\ now = 1
    /\ pc = "start"
    /\ caller = "main"
    /\ results = NoValue
    /\ idx = 1
    /\ live_calls = {}
    /\ last_probe = NoProbe
    /\ returned = NoValue
    /\ readiness = NoValue
    /\ env_loaded = FALSE
    /\ missing_vars = <<>>
    /\ loads = 0
    /\ inherited = env
    /\ dotenv_installed = TRUE
    /\ env_files = [i \in env_paths |-> NoFile]
    /\ supplied_len = [k \in Keys |-> MaxSecretLen]
    /\ MainIdle
    /\ ThreadsIdle
    /\ ResetIdle
    /\ inflight = NoCall
    /\ silent \in SUBSET ProviderNames

NextLive ==
    \/ CallValidateAllApis
    \/ ProbeBegin
    \/ LiveCallAnswers
    \/ LiveCallTimesOut
    \/ ValidateFinish

SpecLive == InitLive /\ [][NextLive]_vars /\ WF_vars(NextLive)

-----------------------------------------------------------------------------
\* Properties of the validation engine.

\* The keys a provider needs before its live call is made.
Credentials(name) ==
    CASE name = "supabase" -> {"SUPABASE_URL", "SUPABASE_ANON_KEY"}
      [] name = "gemini" -> {"GEMINI_API_KEY"}
      [] name = "groq" -> {"GROQ_API_KEY"}
      [] name = "openai" -> {"OPENAI_API_KEY"}
      [] name = "google_search" -> {"GOOGLE_SEARCH_KEY", "GOOGLE_CSE_ID"}
      [] name = "serper" -> {"SERPER_API_KEY"}
      [] name = "jina" -> {"JINA_API_KEY"}

HasCredentials(name) == \A k \in Credentials(name) : Truthy(env[k])

\* A pass has stored its report.
Stored == ~IsEmptyDict(validation_results)

\* The loop has just handled a provider.
JustProbed == pc = "loop" /\ last_probe.name # "none"

\* An entry written by the except branch of the loop.
Synthesized(entry) == entry.details.text = "Erro na validacao: "

\* The longest detail a probe returns.
DetailBound == StrLen["Configurado mas com erro: "] + TruncLen

\* C1: a fault raised while a provider is handled is recorded for that
\* provider as configured = FALSE, working = FALSE, and the loop goes on: after
\* k iterations, faulted or not, the report holds the entries of the first k
\* providers of the registry, and the pass ends by storing a report in which
\* every entry written for a fault is still configured = FALSE, working = FALSE.
C1_FaultContained ==
    /\ pc = "loop" =>
          /\ idx \in 1..(Len(apis_to_validate) + 1)
          /\ DOMAIN results.apis = {apis_to_validate[i].name : i \in 1..(idx - 1)}
    /\ (JustProbed /\ last_probe.fault # "none") =>
          /\ last_probe.name = apis_to_validate[idx - 1].name
          /\ ~results.apis[last_probe.name].configured
          /\ ~results.apis[last_probe.name].working
    /\ Stored =>
          \A n \in DOMAIN validation_results.apis :
              Synthesized(validation_results.apis[n]) =>
                  /\ ~validation_results.apis[n].configured
                  /\ ~validation_results.apis[n].working

\* The first provider faulted and the providers after it were probed: a
\* report is stored in which the last one works.
C1_Witness ==
    /\ Stored
    /\ Synthesized(validation_results.apis["supabase"])
    /\ validation_results.apis["gemini"].working
    /\ validation_results.apis["jina"].working

\* C2: the report a pass stores and returns has exactly 7 entries, one per
\* registered provider, and summary.total_apis is 7.
C2_SevenEntries ==
    Stored =>
        /\ DOMAIN validation_results.apis = ProviderNames
        /\ Cardinality(DOMAIN validation_results.apis) = 7
        /\ validation_results.summary.total_apis = 7
        /\ returned = validation_results

\* Every iteration of the pass raised, and the report holds 7 entries written
\* by the except branch.
C2_Witness ==
    /\ Stored
    /\ \A n \in ProviderNames :
          n \in DOMAIN validation_results.apis
              /\ Synthesized(validation_results.apis[n])

\* C3: in every stored report, summary.system_ready is true if and only if
\* summary.critical_apis_working >= 2.
C3_ReadyIffCounter ==
    Stored =>
        (validation_results.summary.system_ready
            <=> validation_results.summary.critical_apis_working >= 2)

\* C4 as stated: every entry of a stored report, the entries written for a
\* fault included, has working => configured and its status exactly by the
\* mapping: OK iff working, ERROR iff configured and not working,
\* NOT_CONFIGURED iff not configured.
C4_ExactMapping ==
    Stored =>
        \A n \in DOMAIN validation_results.apis :
            LET x == validation_results.apis[n] IN
            /\ x.working => x.configured
            /\ x.status = "OK" <=> x.working
            /\ x.status = "ERROR" <=> (x.configured /\ ~x.working)
            /\ x.status = "NOT_CONFIGURED" <=> ~x.configured

EntryFollowsMapping(x) ==
    /\ x.working => x.configured
    /\ x.status = "OK" <=> x.working
    /\ IF Synthesized(x)
       THEN ~x.configured /\ ~x.working /\ x.status = "ERROR"
       ELSE /\ x.status = "ERROR" <=> (x.configured /\ ~x.working)
            /\ x.status = "NOT_CONFIGURED" <=> ~x.configured

\* C4, amended: every entry has working => configured and status OK iff
\* working; an entry written from a probe's return has its status exactly by
\* the mapping; an entry the engine writes for a caught fault, and no other,
\* is configured = FALSE, working = FALSE with status ERROR.
C4_MappingButSynthesized ==
    /\ pc = "loop" =>
          \A n \in DOMAIN results.apis : EntryFollowsMapping(results.apis[n])
    /\ JustProbed =>
          (Synthesized(results.apis[last_probe.name]) <=> last_probe.fault # "none")
    /\ Stored =>
          \A n \in DOMAIN validation_results.apis :
              EntryFollowsMapping(validation_results.apis[n])

\* One stored report with an entry written for a fault, an entry of a probe
\* that failed and an entry of a probe without its key.
C4_Witness ==
    /\ Stored
    /\ Synthesized(validation_results.apis["supabase"])
    /\ validation_results.apis["gemini"].status = "ERROR"
    /\ validation_results.apis["gemini"].configured
    /\ validation_results.apis["jina"].status = "NOT_CONFIGURED"

\* C5: the verdict get_system_readiness returns carries the counts of the
\* stored report and the level and system_ready of the readiness table; a
\* report with the storage backend alone working gives LIMITED, one with
\* storage, the primary generation provider and one recommended provider
\* working gives FULL.
C5_ReadinessTable ==
    ~IsEmptyDict(readiness) =>
        LET apis == validation_results.apis
            cw == Cardinality({n \in DOMAIN apis :
                      apis[n].priority = "CRITICAL" /\ apis[n].working})
            rw == Cardinality({n \in DOMAIN apis :
                      apis[n].priority = "RECOMMENDED" /\ apis[n].working})
        IN /\ readiness.critical_working = cw
           /\ readiness.recommended_working = rw
           /\ (cw >= 2 /\ rw >= 1) =>
                 readiness.level = "FULL" /\ readiness.system_ready
           /\ (cw >= 2 /\ rw = 0) =>
                 readiness.level = "BASIC" /\ readiness.system_ready
           /\ cw = 1 => readiness.level = "LIMITED" /\ ~readiness.system_ready
           /\ cw = 0 => readiness.level = "NOT_READY" /\ ~readiness.system_ready
           /\ (\A n \in DOMAIN apis : apis[n].working <=> n = "supabase") =>
                 readiness.level = "LIMITED" /\ ~readiness.system_ready
           /\ (apis["supabase"].working /\ apis["gemini"].working /\ rw = 1) =>
                 readiness.level = "FULL" /\ readiness.system_ready

\* A verdict returned for a report in which the storage backend alone works.
C5_Witness ==
    /\ ~IsEmptyDict(readiness)
    /\ \A n \in DOMAIN validation_results.apis :
          validation_results.apis[n].working <=> n = "supabase"
    /\ readiness.level = "LIMITED"

\* C6: after a pass, system_ready is true exactly when the storage backend
\* and at least one generation provider (gemini, groq or openai) work.
C6_StorageAndAnyGenerator ==
    Stored =>
        (validation_results.summary.system_ready
            <=> /\ validation_results.apis["supabase"].working
                /\ \/ validation_results.apis["gemini"].working
                   \/ validation_results.apis["groq"].working
                   \/ validation_results.apis["openai"].working)

\* C7: a provider one of whose keys is absent gets the entry
\* configured = FALSE, working = FALSE, status NOT_CONFIGURED, and its live
\* call is not made.
C7_AbsentKeyNotConfigured ==
    /\ (JustProbed /\ ~HasCredentials(last_probe.name)) =>
          /\ last_probe.name \notin live_calls
          /\ ~results.apis[last_probe.name].configured
          /\ ~results.apis[last_probe.name].working
          /\ results.apis[last_probe.name].status = "NOT_CONFIGURED"
    /\ Stored =>
          \A n \in DOMAIN validation_results.apis :
              ~HasCredentials(n) =>
                  /\ n \notin live_calls
                  /\ ~validation_results.apis[n].configured
                  /\ ~validation_results.apis[n].working
                  /\ validation_results.apis[n].status = "NOT_CONFIGURED"

\* C8: a provider with its keys present whose live call raised, the fault
\* being caught inside the probe, gets the entry configured = TRUE,
\* working = FALSE, status ERROR, with a detail of 1 to DetailBound characters.
C8_LiveFaultIsError ==
    (JustProbed /\ HasCredentials(last_probe.name) /\ last_probe.live = "raises"
         /\ last_probe.fault # "probe") =>
        /\ results.apis[last_probe.name].configured
        /\ ~results.apis[last_probe.name].working
        /\ results.apis[last_probe.name].status = "ERROR"
        /\ results.apis[last_probe.name].details.len >= 1
        /\ results.apis[last_probe.name].details.len <= DetailBound

\* C7 and C8 where the iteration raised nowhere (not claims: the cases the
\* two statements are right about).
C7_WithoutFault ==
    (JustProbed /\ ~HasCredentials(last_probe.name) /\ last_probe.fault = "none") =>
        /\ last_probe.name \notin live_calls
        /\ results.apis[last_probe.name].status = "NOT_CONFIGURED"
        /\ ~results.apis[last_probe.name].configured

C8_WithoutFault ==
    (JustProbed /\ HasCredentials(last_probe.name) /\ last_probe.live = "raises"
         /\ last_probe.fault = "none") =>
        /\ results.apis[last_probe.name].configured
        /\ ~results.apis[last_probe.name].working
        /\ results.apis[last_probe.name].status = "ERROR"
        /\ results.apis[last_probe.name].details.len >= 1
        /\ results.apis[last_probe.name].details.len <= DetailBound

\* The counts over the entries of a report.
CountConfigured(apis) == Cardinality({n \in DOMAIN apis : apis[n].configured})

CountWorking(apis) == Cardinality({n \in DOMAIN apis : apis[n].working})

\* C16: in every stored report the summary counters equal the counts over its
\* entries: configured_apis the entries with configured true, working_apis
\* those with working true, critical_apis_working the CRITICAL ones with
\* working true, and critical_apis_working <= working_apis <= configured_apis
\* <= total_apis, also when the engine caught a fault during the pass.
C16_CountersMatchEntries ==
    Stored =>
        LET s == validation_results.summary
            apis == validation_results.apis
        IN /\ s.configured_apis = CountConfigured(apis)
           /\ s.working_apis = CountWorking(apis)
           /\ s.critical_apis_working = CriticalWorking(apis)
           /\ s.critical_apis_working <= s.working_apis
           /\ s.working_apis <= s.configured_apis
           /\ s.configured_apis <= s.total_apis

\* C17: every entry of a stored report, an entry the engine writes for a
\* caught fault included, has a detail of at most DetailBound characters,
\* however long the message of the fault is.
C17_DetailBounded ==
    Stored =>
        \A n \in DOMAIN validation_results.apis :
            validation_results.apis[n].details.len <= DetailBound

\* C17 for the entries written from a probe's return (not a claim: the case
\* the statement is right about).
C17_ProbeDetailBounded ==
    Stored =>
        \A n \in DOMAIN validation_results.apis :
            ~Synthesized(validation_results.apis[n]) =>
                validation_results.apis[n].details.len <= DetailBound

-----------------------------------------------------------------------------
\* Properties of the status report and of validate_system.py.

\* The previews of a report of get_api_status.
StatusPreviews == {api_status[n].key_preview : n \in ProviderNames \ {"supabase"}}

\* The previews print_configuration_status wrote.
PrintedPreviews ==
    {printed.lines[n].value : n \in ProviderNames \ {"supabase"}}
        \ {NoLine}

\* A preview is a strict prefix of the value of its key, then the ellipsis.
StrictPrefix(p) ==
    Truthy(env[p.key]) =>
        /\ p.text = "prefix..."
        /\ p.shown < ValueLen(env, supplied_len, p.key)

\* C12: for every provider and every non-empty secret of any length, the
\* report of get_api_status and what print_configuration_status prints do
\* not hold the secret in full: the preview is a strict prefix of the secret
\* followed by an ellipsis.
C12_SecretNeverInFull ==
    /\ ~IsEmptyDict(api_status) => \A p \in StatusPreviews : StrictPrefix(p)
    /\ ~IsEmptyDict(printed) => \A p \in PrintedPreviews : StrictPrefix(p)

\* C12 for the secrets of more than PreviewLen characters (not a claim: the
\* case the statement is right about).
C12_LongSecrets ==
    ~IsEmptyDict(printed) =>
        \A p \in PrintedPreviews :
            ValueLen(env, supplied_len, p.key) > PreviewLen => StrictPrefix(p)

\* C13: validate_system.py exits with status 0 if and only if no fault left
\* the main sequence and the verdict computed after its pass has
\* system_ready true; the verdict is the one of the report of that pass;
\* what the three component checks met does not enter the status; a fault
\* that leaves the main sequence gives status 1.
C13_ExitStatus ==
    pc = "exited" =>
        /\ exit_status \in {0, 1}
        /\ exit_status = 0 <=>
              /\ escaped = "none"
              /\ ~IsEmptyDict(readiness)
              /\ readiness.system_ready
        /\ escaped # "none" => exit_status = 1
        /\ ~IsEmptyDict(readiness) =>
              /\ returned = validation_results
              /\ readiness.system_ready
                    <=> (/\ returned.apis["supabase"].working
                         /\ returned.apis["gemini"].working)

\* The script exits with status 0 after two of its component checks raised.
C13_Witness ==
    /\ pc = "exited"
    /\ exit_status = 0
    /\ components["ai_manager"] = "raises"
    /\ components["database"] = "raises"
    /\ readiness.system_ready

-----------------------------------------------------------------------------
\* Properties of the shared api_validator.

\* The passes that have written last_validation, and the latest of them.
StampedPasses == {r \in DOMAIN passes : passes[r].stamp # 0}

LatestPass ==
    CHOOSE r \in StampedPasses : \A q \in StampedPasses : passes[q].stamp <= passes[r].stamp

\* Thread t makes a step of get_system_readiness outside a pass.
ReadinessStep(t) ==
    /\ threads'[t] # threads[t]
    /\ threads'[t].op = "get_system_readiness"
    /\ threads[t].pc \in {"idle", "apis", "total"}

\* A report holds what a pass in world w alone gives.
ReportOfWorld(report, w) ==
    /\ DOMAIN report.apis = ProviderNames
    /\ report.summary.total_apis = 7
    /\ w = "all_ok" =>
          /\ report.summary.configured_apis = 7
          /\ report.summary.working_apis = 7
          /\ \A n \in ProviderNames : report.apis[n].working
    /\ w = "storage_only" =>
          /\ report.summary.configured_apis = 7
          /\ report.summary.working_apis = 1
          /\ \A n \in ProviderNames : report.apis[n].working <=> n = "supabase"
    /\ w = "none_ok" =>
          /\ report.summary.configured_apis = 7
          /\ report.summary.working_apis = 0
          /\ \A n \in ProviderNames :
                report.apis[n].configured /\ ~report.apis[n].working
    /\ w = "print_fault" =>
          /\ report.summary.working_apis = 7
          /\ \A n \in ProviderNames : report.apis[n].working <=> n # "supabase"

C14_Step ==
    /\ validation_results' # validation_results =>
          \E t \in DOMAIN threads :
              /\ threads[t].pc = "store"
              /\ threads'[t].pc = "stamp"
              /\ validation_results' = threads[t].validation_results
    /\ validation_results' # 0 =>
          ReportOfWorld(heap'[validation_results'],
                        passes'[validation_results'].world)
    /\ validation_results # 0 =>
          heap'[validation_results] = heap[validation_results]
    /\ \A t \in DOMAIN threads :
          threads[t].ret.kind = "report" =>
              heap'[threads[t].ret.ref] = heap[threads[t].ret.ref]

\* C14: the stored report changes at line 98 of a validation pass and
\* nowhere else; the report a pass stores holds the outcomes and the counts
\* of that pass alone, whatever the report before it held; the dict of a
\* report that was stored or returned is not written again by a later pass.
C14_ReportReplacedWholly == [][C14_Step]_vars

\* A pass in which no provider works has replaced the report of a pass in
\* which every provider works, and the first report is as it was returned.
C14_Witness ==
    /\ Len(heap) >= 2
    /\ validation_results = 2
    /\ passes[1].world = "all_ok"
    /\ passes[2].world = "none_ok"
    /\ heap[1].summary.working_apis = 7
    /\ heap[2].summary.working_apis = 0
    /\ \E t \in DOMAIN threads :
          threads[t].pc = "idle" /\ threads[t].ret.kind = "report"
              /\ threads[t].ret.ref = 2

C19_Step ==
    \A t \in DOMAIN threads :
        /\ (ReadinessStep(t) /\ threads[t].pc = "idle") =>
              (threads'[t].pc = "loop" <=> validation_results = 0)
        /\ (ReadinessStep(t) /\ validation_results # 0) =>
              /\ Len(heap') = Len(heap)
              /\ heap' = heap
              /\ validation_results' = validation_results
              /\ last_validation' = last_validation
        /\ (ReadinessStep(t) /\ threads[t].pc = "total") =>
              /\ threads'[t].ret.kind = "verdict"
              /\ threads'[t].ret.ref = LatestPass
              /\ threads'[t].ret.verdict = Verdict(heap[LatestPass])

\* C19: get_system_readiness runs a validation pass only when no report is
\* stored; with a report stored, a call of it starts no pass, writes neither
\* the stored report nor last_validation, and returns the verdict of the
\* report stored last.
C19_ReadinessReadsOnly == [][C19_Step]_vars

\* get_system_readiness has returned the verdict of a second report, stored
\* by a later pass than the one that stored the first.
C19_Witness ==
    /\ Len(heap) = 2
    /\ validation_results = 2
    /\ passes[1].world = "all_ok"
    /\ passes[2].world = "storage_only"
    /\ threads[1].pc = "idle"
    /\ threads[1].ret.kind = "verdict"
    /\ threads[1].ret.ref = 2
    /\ threads[1].ret.verdict.level = "LIMITED"

\* C20, first half (not a claim: the part the statement is right about):
\* validation_results is always the whole report of one pass.
C20_ReportOfOnePass ==
    validation_results # 0 =>
        /\ ReportOfWorld(heap[validation_results], passes[validation_results].world)
        /\ \A t \in DOMAIN threads :
              threads[t].validation_results = validation_results =>
                  threads[t].pc \in {"stamp", "return", "apis", "total", "idle"}

\* C20: with passes running concurrently, validation_results is at every
\* moment the whole report of one pass, and a thread about to read the
\* engine finds validation_results and last_validation written by the same
\* pass.
C20_AtomicStore ==
    validation_results # 0 =>
        /\ ReportOfWorld(heap[validation_results], passes[validation_results].world)
        /\ (\E t \in DOMAIN threads : threads[t].pc = "idle") =>
              passes[validation_results].stamp = last_validation

\* C20 when no pass is running (not a claim): the mismatch stays after the
\* passes have returned.
C20_AtRest ==
    (validation_results # 0 /\ \A t \in DOMAIN threads : threads[t].pc = "idle") =>
        passes[validation_results].stamp = last_validation

\* The reports whose loop has run: the only ones line 98 can store.
FinishedReports == {r \in DOMAIN heap : passes[r].world # "none"}

\* C21: a verdict returned by get_system_readiness is the verdict of one
\* report: critical_working, recommended_working, total_working, level and
\* system_ready are those of the same stored report, also when another
\* thread stores a report while the verdict is computed.
C21_VerdictOfOneReport ==
    \A t \in DOMAIN threads :
        threads[t].ret.kind = "verdict" =>
            \E r \in FinishedReports : threads[t].ret.verdict = Verdict(heap[r])

\* C21 without total_working (not a claim: the part the statement is right
\* about): in a verdict just returned, the counts over the entries, level
\* and system_ready are those of the one report read at line 288, and
\* total_working is that of the report stored when line 317 ran.
C21_ButTotalWorking ==
    \A t \in DOMAIN threads :
        (threads[t].pc = "idle" /\ threads[t].ret.kind = "verdict") =>
            \E r \in FinishedReports :
                /\ threads[t].apis = r
                /\ \A f \in DOMAIN threads[t].ret.verdict \ {"total_working"} :
                      threads[t].ret.verdict[f] = Verdict(heap[r])[f]
                /\ threads[t].ret.verdict.total_working
                      = heap[threads[t].ret.ref].summary.working_apis

-----------------------------------------------------------------------------
\* Properties of a pass seen call by call.

\* C22: a validation pass always terminates: a pass that has started ends
\* with its report stored, whichever providers never answer, each live call
\* being bounded by the timeout it was given.
C22_PassTerminates == (pc \in {"loop", "call"}) ~> (pc = "ready")

\* C22 for the probes whose call has a timeout (not a claim: the part the
\* statement is right about): with no silent provider among the other
\* probes, the pass ends.
C22_TerminatesWhereTimed ==
    (pc \in {"loop", "call"}
        /\ \A n \in silent : ProbeTimeout(n) # NoTimeout) ~> (pc = "ready")

\* C22, its means (not a claim): every live call is issued with a timeout.
C22_ExplicitTimeout == pc = "call" => inflight.timeout # NoTimeout

\* C22, its outcome (not a claim: the part the statement is right about): a
\* pass that ends has an entry for every provider; the silent providers
\* among those called are configured and not working, and nobody else is
\* affected.
C22_SilenceIsProbeFailure ==
    pc = "ready" =>
        /\ DOMAIN validation_results.apis = ProviderNames
        /\ \A n \in ProviderNames :
              /\ validation_results.apis[n].configured <=> n \in live_calls
              /\ validation_results.apis[n].working
                    <=> (n \in live_calls /\ n \notin silent)
              /\ (n \in live_calls /\ n \in silent) =>
                    validation_results.apis[n].status = "ERROR"

\* A pass has ended although no provider answered: every call was bounded.
C22_AllSilentPassEnded ==
    pc = "ready" /\ silent = ProviderNames /\ live_calls = ProviderNames

-----------------------------------------------------------------------------
\* Properties of the reset handler.

\* This step is the reset handler serving a request.
ResetServed == now' # now

\* A manager after reset_provider_errors(name) of a provider it knows, or of
\* None: the provider, or every provider, has no error and the others are
\* as they were.
ResetOf(after, before, name) ==
    \A p \in DOMAIN before :
        after[p] = IF name = None \/ name = p THEN 0 ELSE before[p]

C15_Step ==
    ResetServed =>
        LET rq == response'.request IN
        /\ rq.type = "ai" =>
              /\ production_search_manager' = production_search_manager
              /\ (response'.success /\ rq.provider \in AiProviders \cup {None}) =>
                    ResetOf(ai_manager', ai_manager, rq.provider)
        /\ rq.type = "search" =>
              /\ ai_manager' = ai_manager
              /\ (response'.success /\ rq.provider \in SearchProviders \cup {None}) =>
                    ResetOf(production_search_manager', production_search_manager,
                            rq.provider)
        /\ (rq.type = None /\ response'.success) =>
              /\ \A p \in AiProviders : ai_manager'[p] = 0
              /\ \A p \in SearchProviders : production_search_manager'[p] = 0
        /\ response'.success =>
              /\ response'.code = 200
              /\ response'.ai_status = get_provider_status(ai_manager')
              /\ response'.search_status
                    = get_provider_status(production_search_manager')
              /\ \A p \in AiProviders :
                    response'.ai_status[p].errors = ai_manager'[p]
              /\ \A p \in SearchProviders :
                    response'.search_status[p].errors = production_search_manager'[p]

\* C15: a reset request of type 'ai' resets the AI manager alone, for the
\* named provider or for all of them when none is named, and leaves the
\* search manager as it was; type 'search' does the same with the managers
\* exchanged; a request without type resets every provider of both; every
\* successful response carries the status of both managers as they are after
\* the reset.
C15_ResetByType == [][C15_Step]_vars

\* A request of type 'ai' naming one provider was served with success while
\* the other AI provider and a search provider had errors counted: the named
\* provider has none left, the others keep theirs, and the response shows it.
C15_Witness ==
    /\ ~IsEmptyDict(response)
    /\ response.success
    /\ response.request = [type |-> "ai", provider |-> "gemini"]
    /\ ai_manager["gemini"] = 0
    /\ ai_manager["groq"] = MaxErrors
    /\ production_search_manager["serper"] = MaxErrors
    /\ response.ai_status["groq"].errors = MaxErrors
    /\ ~response.search_status["serper"].available

-----------------------------------------------------------------------------
\* Properties of the environment loader.

\* load_environment has returned and found a file that load_dotenv read.
FileLoaded ==
    /\ pc = "up"
    /\ dotenv_installed
    /\ FirstFound(env_files) # 0
    /\ env_files[FirstFound(env_files)].readable

LoadedContent == env_files[FirstFound(env_files)].content

\* C9: after load_environment, each of the three critical keys has a
\* non-empty value in os.environ, whatever the search for the .env file met;
\* with no file found and none of the three keys inherited, missing_vars is
\* empty and each key holds its fallback.
C9_CriticalKeysResolved ==
    pc = "up" =>
        /\ \A k \in Range(required_vars) : Truthy(env[k])
        /\ (FirstFound(env_files) = 0
               /\ \A k \in Range(required_vars) : ~Truthy(inherited[k])) =>
              /\ missing_vars = <<>>
              /\ \A k \in Range(required_vars) : env[k] = "fallback"

\* C9 where load_dotenv does not raise (not a claim: the case the statement
\* is right about).
C9_WithoutLoadFault ==
    (pc = "up"
        /\ ~(dotenv_installed /\ FirstFound(env_files) # 0
                /\ ~env_files[FirstFound(env_files)].readable)) =>
        /\ \A k \in Range(required_vars) : Truthy(env[k])
        /\ missing_vars = <<>>

\* The value a key has once the file is loaded over the inherited
\* environment, before any injection.
SourceValue(k) ==
    IF FileLoaded /\ k \in DOMAIN LoadedContent THEN LoadedContent[k]
    ELSE inherited[k]

\* What validate_critical_variables and set_default_values hold for a key.
InjectedValue(k) ==
    IF k \in Range(required_vars) \cup Range(recommended_vars) THEN "fallback"
    ELSE IF k \in Range(defaults) THEN "default"
    ELSE ""

\* C10 as stated: a key defined both in the loaded file and in the inherited
\* environment resolves to the file's value, and no injection replaces a
\* non-empty value of either source.
C10_OverrideWins ==
    /\ FileLoaded =>
          \A k \in DOMAIN LoadedContent :
              inherited[k] # Absent => env[k] = LoadedContent[k]
    /\ pc = "up" => \A k \in Keys : Truthy(SourceValue(k)) => env[k] = SourceValue(k)

\* C10, amended: a key defined both in the loaded file and in the inherited
\* environment resolves to the file's value when that value is not empty;
\* when the file defines it empty, the inherited value is gone and the key
\* holds the fallback or default injected for it, or the empty value when
\* none exists. No injection replaces a non-empty value of either source.
C10_OverrideWinsUnlessEmpty ==
    /\ FileLoaded =>
          \A k \in DOMAIN LoadedContent :
              inherited[k] # Absent =>
                  env[k] = IF LoadedContent[k] # "" THEN LoadedContent[k]
                           ELSE InjectedValue(k)
    /\ pc = "up" => \A k \in Keys : Truthy(SourceValue(k)) => env[k] = SourceValue(k)

\* A file was loaded that defines one inherited key with a value and another
\* inherited key empty.
C10_Witness ==
    /\ FileLoaded
    /\ inherited["SUPABASE_URL"] = "env"
    /\ LoadedContent = [k \in {"SUPABASE_URL", "GROQ_API_KEY"} |->
                           IF k = "SUPABASE_URL" THEN "file" ELSE ""]
    /\ inherited["GROQ_API_KEY"] = "env"
    /\ env["SUPABASE_URL"] = "file"
    /\ env["GROQ_API_KEY"] = "fallback"

\* C11: once the module-level loader has run load_environment, no call of
\* ensure_environment_loaded runs it again, whether or not a .env file was
\* found: load_environment has run exactly once.
C11_LoadedOnce == pc = "up" => loads = 1

\* C18: after load_environment returns, by any path, missing_vars is the list
\* of the critical keys whose value in os.environ is empty or absent.
C18_MissingVarsTruthful ==
    pc = "up" =>
        missing_vars = SelectSeq(required_vars, LAMBDA k : ~Truthy(env[k]))

\* C18 where load_dotenv does not raise (not a claim: the case the statement
\* is right about).
C18_WithoutLoadFault ==
    (pc = "up"
        /\ ~(dotenv_installed /\ FirstFound(env_files) # 0
                /\ ~env_files[FirstFound(env_files)].readable)) =>
        missing_vars = SelectSeq(required_vars, LAMBDA k : ~Truthy(env[k]))

-----------------------------------------------------------------------------
\* Properties of the bootstrap sequence of validate_system.py.

\* Environment resolution has run to its end: the loader was created, and
\* neither the fallback injection nor the default injection has anything
\* left to write.
ResolutionCompleted ==
    /\ loads >= 1
    /\ validate_critical_variables(env).env = env
    /\ set_default_values(env) = env

\* C23: in the bootstrap sequence, environment resolution has completed,
\* fallback and default injection included, when the probes of a
\* validation pass read the configuration.
C23_ResolvedBeforeFirstProbe == pc = "loop" => ResolutionCompleted

\* C23, the order alone (not a claim: the part the statement is right
\* about): the loader has been created, and load_environment has returned,
\* before the first probe runs.
C23_LoaderBeforeFirstProbe == pc = "loop" => loads = 1

\* C23 where load_dotenv does not raise (not a claim).
C23_WithoutLoadFault ==
    (pc = "loop"
        /\ ~(dotenv_installed /\ FirstFound(env_files) # 0
                /\ ~env_files[FirstFound(env_files)].readable)) =>
        ResolutionCompleted
====
